---- MODULE Spec2Model ----
(***************************************************************************)
(* Model of the ADXL345 accelerometer driver, src/go-adxl345.go.           *)
(*                                                                         *)
(* The source file holds two definitions of the driver: lines 1-159 and    *)
(* lines 161-352.  They differ in scaleMultiplier (0.004 / 0.0039) and in  *)
(* the mask of SetRange (value &= 0x0F / value &= ^0x0F).  The variable    *)
(* `variant` says which of the two definitions the behaviour runs.         *)
(*                                                                         *)
(* Floating point values are modelled as exact rationals num/den; a        *)
(* vector component is the integer n that stands for n / 10^4 (the result  *)
(* of round(f, 4)).  For every raw count the decoder of the source can     *)
(* produce (0..255, see DecodeAxis) and both scale factors, the float64    *)
(* results of the source equal the exact results computed here.            *)
(***************************************************************************)
EXTENDS Integers, Sequences, FiniteSets, TLC

VARIABLES variant, proc, handle, reg, buf, call, ops, ret, lastRange

vars == <<variant, proc, handle, reg, buf, call, ops, ret, lastRange>>

----------------------------------------------------------------------------
(* Constants of the source *)

dataFormat == 49
bwRate     == 44
powerCTL   == 45
measure    == 8
dataX0     == 50
Rate1600HZ == 15
Rate800HZ  == 14
Rate400HZ  == 13
Rate200HZ  == 12
Rate100HZ  == 11
Rate50HZ   == 10
Rate25HZ   == 9
Range2G    == 0
Range4G    == 1
Range8G    == 2
Range16G   == 3
AddressDef == 83
AddressAlt == 29

Rates  == {Rate1600HZ, Rate800HZ, Rate400HZ, Rate200HZ, Rate100HZ, Rate50HZ, Rate25HZ}
Ranges == {Range2G, Range4G, Range8G, Range16G}

(* The two definitions of the driver in the source file. *)
Variants == {1, 2}

(* scaleMultiplier as the rational ScaleNum(v) / ScaleDen: 0.004 in the    *)
(* first definition, 0.0039 in the second.                                 *)
ScaleDen == 10000
scaleMultiplier(v) == IF v = 1 THEN 40 ELSE 39

(* earthGravityMS2 = 9.80665 as the rational GravityNum / GravityDen       *)
(* (980665 / 100000 in lowest terms).                                      *)
GravityNum == 196133
GravityDen == 20000

(* Transport errors; Nil is Go's nil error. *)
Nil  == "nil"
Errs == {"EIO", "ENXIO"}

----------------------------------------------------------------------------
(* Integer arithmetic of Go.  An operand is read in two's complement: for   *)
(* a negative b, b % 2 and b \div 2 (floor) give its bits, so the int32     *)
(* constant ^0x0F is -16.                                                   *)

Byte == 0..255

RECURSIVE BitAnd(_, _, _)
BitAnd(a, b, w) ==
    IF w = 0 THEN 0
    ELSE (IF a % 2 = 1 /\ b % 2 = 1 THEN 1 ELSE 0) + 2 * BitAnd(a \div 2, b \div 2, w - 1)

RECURSIVE BitOr(_, _, _)
BitOr(a, b, w) ==
    IF w = 0 THEN 0
    ELSE (IF a % 2 = 1 \/ b % 2 = 1 THEN 1 ELSE 0) + 2 * BitOr(a \div 2, b \div 2, w - 1)

(* b << 8 on an operand of type byte: the result keeps the byte width. *)
ShlByte8(b) == (b * 256) % 256

(* int16(x) of an unsigned value x. *)
Int16(x) == LET u == x % 65536 IN IF u >= 32768 THEN u - 65536 ELSE u

(* x := buf[i] | (buf[i+1] << 8); xi := int16(x), with buf a []byte. *)
DecodeAxis(lo, hi) == Int16(BitOr(lo, ShlByte8(hi), 8))

RECURSIVE GCD(_, _)
GCD(a, b) == IF b = 0 THEN a ELSE GCD(b, a % b)

(* math.Pow(10, float64(places)) *)
RECURSIVE Pow10(_)
Pow10(places) == IF places = 0 THEN 1 ELSE 10 * Pow10(places - 1)

(* round() without the + .5: truncation towards minus infinity. *)
round_Truncate(num, den, places) ==
    LET shift == Pow10(places)
        k     == GCD(shift, den)
    IN  (num * (shift \div k)) \div (den \div k)

(* round(f, places) for f = num/den (den > 0): floor(f*shift + .5) / shift, *)
(* returned as the integer floor(f*shift + .5), i.e. in units of 1/shift.  *)
(* f*shift is reduced to N/D first, and floor(N/D + 1/2) is computed       *)
(* without doubling N when D is even, to stay within 32-bit integers.      *)
round(num, den, places) ==
    LET shift == Pow10(places)
        k     == GCD(shift, den)
        N     == num * (shift \div k)
        D     == den \div k
    IN  IF D % 2 = 0 THEN (N + D \div 2) \div D ELSE (2 * N + D) \div (2 * D)

newVector == <<0, 0, 0>>

----------------------------------------------------------------------------
(* The transport (github.com/corrupt/go-smbus) and the device registers *)

Outcomes == {Nil} \cup Errs

OpenOp(line, address, e)  == [kind |-> "open",      reg |-> line,   val |-> address, err |-> e]
WriteOp(r, v, e)          == [kind |-> "write",     reg |-> r,      val |-> v,       err |-> e]
ReadOp(r, v, e)           == [kind |-> "read",      reg |-> r,      val |-> v,       err |-> e]
BlockOp(r, e)             == [kind |-> "readblock", reg |-> r,      val |-> 6,       err |-> e]

(* Write_byte_data: the register takes the value when the transfer succeeds. *)
Write_byte_data(rg, r, v, e) == IF e = Nil THEN [rg EXCEPT ![r] = v] ELSE rg

NoCall == [op |-> "none", arg |-> 0]
NoRet  == [err |-> Nil, vec |-> newVector, raw |-> newVector, returned |-> FALSE]
Ret(e) == [err |-> e, vec |-> newVector, raw |-> newVector, returned |-> TRUE]

----------------------------------------------------------------------------
(* The operations of the driver, as functions of the register file.  Each   *)
(* yields the registers after the call, the transport operations it issued *)
(* and the error it returns.                                                *)

SetBandwidthRateOp(rg, rate, e) ==
    [reg |-> Write_byte_data(rg, bwRate, rate, e),
     ops |-> <<WriteOp(bwRate, rate, e)>>,
     err |-> e]

(* SetRangeValue without value |= 0x08. *)
SetRangeValue_NoFullRes(v, p, r) ==
    IF v = 1
    THEN BitOr(BitAnd(p, 15, 8), r, 8)
    ELSE BitOr(BitAnd(p, -16, 32), r, 32) % 256

(* The byte SetRange computes from the byte p it read and the range r. *)
SetRangeValue(v, p, r) ==
    IF v = 1
    THEN BitOr(BitOr(BitAnd(p, 15, 8), r, 8), 8, 8)
    ELSE BitOr(BitOr(BitAnd(p, -16, 32), r, 32), 8, 32) % 256

(* SetRangeValue, tabulated over the bytes and the range codes. *)
SetRangeTable ==
    [v \in Variants |-> [p \in Byte |-> [r \in Ranges |-> SetRangeValue(v, p, r)]]]

(* SetRangeOp without the early return on a failed read. *)
SetRangeOp_WriteAnyway(v, rg, r, eRead, eWrite) ==
    LET value == SetRangeTable[v][IF eRead = Nil THEN rg[dataFormat] ELSE 0][r]
    IN  [reg |-> Write_byte_data(rg, dataFormat, value, eWrite),
         ops |-> <<ReadOp(dataFormat, IF eRead = Nil THEN rg[dataFormat] ELSE 0, eRead),
                   WriteOp(dataFormat, value, eWrite)>>,
         err |-> eWrite]

SetRangeOp(v, rg, r, eRead, eWrite) ==
    IF eRead # Nil
    THEN [reg |-> rg, ops |-> <<ReadOp(dataFormat, 0, eRead)>>, err |-> eRead]
    ELSE LET value == SetRangeTable[v][rg[dataFormat]][r]
         IN  [reg |-> Write_byte_data(rg, dataFormat, value, eWrite),
              ops |-> <<ReadOp(dataFormat, rg[dataFormat], Nil),
                        WriteOp(dataFormat, value, eWrite)>>,
              err |-> eWrite]

EnableMeasurementOp(rg, e) ==
    [reg |-> Write_byte_data(rg, powerCTL, measure, e),
     ops |-> <<WriteOp(powerCTL, measure, e)>>,
     err |-> e]

(* GetAxesGOp without the early return on a failed block read. *)
GetAxesGOp_NoEarlyReturn(v, b, e) ==
    [vec |-> <<round(DecodeAxis(b[1], b[2]) * scaleMultiplier(v), ScaleDen, 4),
               round(DecodeAxis(b[3], b[4]) * scaleMultiplier(v), ScaleDen, 4),
               round(DecodeAxis(b[5], b[6]) * scaleMultiplier(v), ScaleDen, 4)>>,
     raw |-> <<DecodeAxis(b[1], b[2]), DecodeAxis(b[3], b[4]), DecodeAxis(b[5], b[6])>>,
     err |-> e,
     ops |-> <<BlockOp(dataX0, e)>>]

GetAxesGOp(v, b, e) ==
    IF e # Nil
    THEN [vec |-> newVector, raw |-> newVector, err |-> e, ops |-> <<BlockOp(dataX0, e)>>]
    ELSE LET xi == DecodeAxis(b[1], b[2])
             yi == DecodeAxis(b[3], b[4])
             zi == DecodeAxis(b[5], b[6])
         IN  [vec |-> <<round(xi * scaleMultiplier(v), ScaleDen, 4),
                        round(yi * scaleMultiplier(v), ScaleDen, 4),
                        round(zi * scaleMultiplier(v), ScaleDen, 4)>>,
              raw |-> <<xi, yi, zi>>,
              err |-> e,
              ops |-> <<BlockOp(dataX0, e)>>]

GetAxesAccelerationOp(v, b, e) ==
    LET gAxes == GetAxesGOp(v, b, e)
    IN  IF gAxes.err # Nil
        THEN [gAxes EXCEPT !.vec = newVector]
        ELSE [gAxes EXCEPT !.vec =
                 <<round(gAxes.vec[1] * GravityNum, Pow10(4) * GravityDen, 4),
                   round(gAxes.vec[2] * GravityNum, Pow10(4) * GravityDen, 4),
                   round(gAxes.vec[3] * GravityNum, Pow10(4) * GravityDen, 4)>>]

----------------------------------------------------------------------------
(* State *)

Lines     == {1}
Addresses == {AddressDef, AddressAlt}

(* Bytes the data registers are sampled from: both ends and the sign       *)
(* boundary of a byte.                                                     *)
SampleBytes == {0, 127, 128, 255}

(* Six data bytes DATAX0..DATAZ1: every combination of the sample bytes,   *)
(* and every low byte of the X axis with each sample high byte.            *)
BufInputs ==
    {<<a, b, c, d, e, f>> : a \in SampleBytes, b \in SampleBytes, c \in SampleBytes,
                            d \in SampleBytes, e \in SampleBytes, f \in SampleBytes}
    \cup {<<lo, hi, 0, 0, 0, 0>> : lo \in Byte, hi \in SampleBytes}

(* Data register contents used while the configuration calls are explored. *)
LifecycleBufs == {<<255, 255, 0, 128, 255, 127>>}

NoHandle == [bus |-> "none", Address |-> 0, Line |-> 0]

OpFailed(o) == \E i \in 1..Len(o) : o[i].err # Nil

(* Before NewADXL345: DATA_FORMAT holds any byte.  BW_RATE and POWER_CTL   *)
(* are never read by the driver; they start at 0.                          *)
Init ==
    /\ variant \in Variants
    /\ proc = "running"
    /\ handle = NoHandle
    /\ reg \in {[r \in {dataFormat, bwRate, powerCTL} |-> IF r = dataFormat THEN p ELSE 0] : p \in Byte}
    /\ buf \in LifecycleBufs
    /\ call = NoCall
    /\ ops = <<>>
    /\ ret = NoRet
    /\ lastRange = -1

(* log.Fatal(err): the process exits with status 1; the return statement   *)
(* that follows it is never executed.                                       *)
NewADXL345(line, address, eOpen, eRate, eRead, eWrite, eMeasure) ==
    /\ proc = "running"
    /\ handle.bus = "none"
    /\ call' = [op |-> "NewADXL345", arg |-> address]
    /\ LET adxl345 == [bus |-> IF eOpen = Nil THEN "open" ELSE "none",
                       Address |-> address, Line |-> line]
           open == <<OpenOp(line, address, eOpen)>>
           s1   == SetBandwidthRateOp(reg, Rate100HZ, eRate)
           s2   == SetRangeOp(variant, s1.reg, Range2G, eRead, eWrite)
           s3   == EnableMeasurementOp(s2.reg, eMeasure)
       IN  IF eOpen # Nil
           THEN /\ proc' = "exited" /\ ops' = open /\ ret' = NoRet
                /\ handle' = adxl345 /\ reg' = reg /\ lastRange' = lastRange
           ELSE IF s1.err # Nil
           THEN /\ proc' = "exited" /\ ops' = open \o s1.ops /\ ret' = NoRet
                /\ handle' = adxl345 /\ reg' = s1.reg /\ lastRange' = lastRange
           ELSE IF s2.err # Nil
           THEN /\ proc' = "exited" /\ ops' = open \o s1.ops \o s2.ops /\ ret' = NoRet
                /\ handle' = adxl345 /\ reg' = s2.reg /\ lastRange' = lastRange
           ELSE IF s3.err # Nil
           THEN /\ proc' = "exited" /\ ops' = open \o s1.ops \o s2.ops \o s3.ops
                /\ ret' = NoRet
                /\ handle' = adxl345 /\ reg' = s3.reg /\ lastRange' = Range2G
           ELSE /\ proc' = proc /\ ops' = open \o s1.ops \o s2.ops \o s3.ops
                /\ ret' = Ret(Nil)
                /\ handle' = adxl345 /\ reg' = s3.reg /\ lastRange' = Range2G
    /\ UNCHANGED <<variant, buf>>

SetBandwidthRate(newRate, e) ==
    /\ proc = "running"
    /\ handle.bus = "open"
    /\ LET s == SetBandwidthRateOp(reg, newRate, e)
       IN  /\ reg' = s.reg /\ ops' = s.ops /\ ret' = Ret(s.err)
    /\ call' = [op |-> "SetBandwidthRate", arg |-> newRate]
    /\ UNCHANGED <<variant, proc, handle, buf, lastRange>>

SetRange(newRange, eRead, eWrite) ==
    /\ proc = "running"
    /\ handle.bus = "open"
    /\ LET s == SetRangeOp(variant, reg, newRange, eRead, eWrite)
       IN  /\ reg' = s.reg /\ ops' = s.ops /\ ret' = Ret(s.err)
           /\ lastRange' = IF s.err = Nil THEN newRange ELSE lastRange
    /\ call' = [op |-> "SetRange", arg |-> newRange]
    /\ UNCHANGED <<variant, proc, handle, buf>>

EnableMeasurement(e) ==
    /\ proc = "running"
    /\ handle.bus = "open"
    /\ LET s == EnableMeasurementOp(reg, e)
       IN  /\ reg' = s.reg /\ ops' = s.ops /\ ret' = Ret(s.err)
    /\ call' = [op |-> "EnableMeasurement", arg |-> 0]
    /\ UNCHANGED <<variant, proc, handle, buf, lastRange>>

GetAxesG(e) ==
    /\ proc = "running"
    /\ handle.bus = "open"
    /\ LET s == GetAxesGOp(variant, buf, e)
       IN  /\ ops' = s.ops
           /\ ret' = [err |-> s.err, vec |-> s.vec, raw |-> s.raw, returned |-> TRUE]
    /\ call' = [op |-> "GetAxesG", arg |-> 0]
    /\ UNCHANGED <<variant, proc, handle, reg, buf, lastRange>>

GetAxesAcceleration(e) ==
    /\ proc = "running"
    /\ handle.bus = "open"
    /\ LET s == GetAxesAccelerationOp(variant, buf, e)
       IN  /\ ops' = s.ops
           /\ ret' = [err |-> s.err, vec |-> s.vec, raw |-> s.raw, returned |-> TRUE]
    /\ call' = [op |-> "GetAxesAcceleration", arg |-> 0]
    /\ UNCHANGED <<variant, proc, handle, reg, buf, lastRange>>

(* Close releases the transport; the driver is not used after it. *)
Close ==
    /\ proc = "running"
    /\ handle.bus = "open"
    /\ handle' = [handle EXCEPT !.bus = "closed"]
    /\ call' = [op |-> "Close", arg |-> 0]
    /\ ops' = <<[kind |-> "close", reg |-> 0, val |-> 0, err |-> Nil]>>
    /\ ret' = Ret(Nil)
    /\ UNCHANGED <<variant, proc, reg, buf, lastRange>>

Next ==
    \/ \E line \in Lines, address \in Addresses,
          eOpen \in Outcomes, eRate \in Outcomes, eRead \in Outcomes,
          eWrite \in Outcomes, eMeasure \in Outcomes :
            NewADXL345(line, address, eOpen, eRate, eRead, eWrite, eMeasure)
    \/ \E newRate \in Rates, e \in Outcomes : SetBandwidthRate(newRate, e)
    \/ \E newRange \in Ranges, eRead \in Outcomes, eWrite \in Outcomes :
            SetRange(newRange, eRead, eWrite)
    \/ \E e \in Outcomes : EnableMeasurement(e)
    \/ \E e \in Outcomes : GetAxesG(e)
    \/ \E e \in Outcomes : GetAxesAcceleration(e)
    \/ Close

Spec == Init /\ [][Next]_vars

(* The conversions alone: a configured handle (DATA_FORMAT 0x08, BW_RATE   *)
(* 0x0B, POWER_CTL 0x08) and any sampled contents of the data registers.   *)
InitAxes ==
    /\ variant \in Variants
    /\ proc = "running"
    /\ handle = [bus |-> "open", Address |-> AddressDef, Line |-> 1]
    /\ reg = [r \in {dataFormat, bwRate, powerCTL} |->
                IF r = dataFormat THEN 8 ELSE IF r = bwRate THEN Rate100HZ ELSE measure]
    /\ buf \in BufInputs
    /\ call = NoCall
    /\ ops = <<>>
    /\ ret = NoRet
    /\ lastRange = Range2G

NextAxes ==
    \/ \E e \in Outcomes : GetAxesG(e)
    \/ \E e \in Outcomes : GetAxesAcceleration(e)

SpecAxes == InitAxes /\ [][NextAxes]_vars

(* The driver on a transport that never fails. *)
NextNoFail ==
    \/ \E line \in Lines, address \in Addresses :
            NewADXL345(line, address, Nil, Nil, Nil, Nil, Nil)
    \/ \E newRate \in Rates : SetBandwidthRate(newRate, Nil)
    \/ \E newRange \in Ranges : SetRange(newRange, Nil, Nil)
    \/ EnableMeasurement(Nil)
    \/ GetAxesG(Nil)
    \/ GetAxesAcceleration(Nil)
    \/ Close

SpecNoFail == Init /\ [][NextNoFail]_vars

----------------------------------------------------------------------------
(* Properties *)

(* C1: after a successful GetAxesG, the raw value of every axis is the      *)
(* little-endian signed 16-bit interpretation of its byte pair (lo, hi):   *)
(* ((lo + 256*hi + 32768) mod 65536) - 32768.                              *)
C1_RawIsSigned16 ==
    (call.op = "GetAxesG" /\ ret.err = Nil) =>
        \A i \in 1..3 :
            ret.raw[i] = ((buf[2 * i - 1] + 256 * buf[2 * i] + 32768) % 65536) - 32768

(* C2: a SetRange(r) whose read of DATA_FORMAT returned p writes exactly    *)
(* (p with bits 0-3 cleared) OR r OR 0x08 to DATA_FORMAT.                  *)
C2_SetRangeWrites ==
    (call.op = "SetRange" /\ ops[1].err = Nil) =>
        /\ Len(ops) = 2
        /\ ops[2].kind = "write"
        /\ ops[2].reg = 49
        /\ ops[2].val = (ops[1].val \div 16) * 16 + 8 + call.arg
        /\ ops[2].val % 4 = call.arg

(* C3: every byte written to DATA_FORMAT has bit 3 set, and once a SetRange *)
(* write has succeeded, bit 3 of DATA_FORMAT is set.                       *)
C3_FullResolution ==
    /\ \A i \in 1..Len(ops) :
          (ops[i].kind = "write" /\ ops[i].reg = 49) => (ops[i].val \div 8) % 2 = 1
    /\ lastRange # -1 => (reg[49] \div 8) % 2 = 1

(* C3 witness: SetRange read a byte with bit 3 clear and its write         *)
(* succeeded.                                                              *)
C3_Witness ==
    /\ call.op = "NewADXL345"
    /\ Len(ops) >= 4
    /\ ops[3].kind = "read" /\ (ops[3].val \div 8) % 2 = 0 /\ ops[3].val >= 16
    /\ ops[4].kind = "write" /\ ops[4].err = Nil
    /\ lastRange = 0
    /\ (reg[49] \div 8) % 2 = 1

(* C4: the transport operations of one NewADXL345 call are a prefix of     *)
(* open(line, address); write 0x0B to 0x2C; read 0x31; write 0x31 with     *)
(* range 2G; write 0x08 to 0x2D: the whole sequence when none fails, and   *)
(* nothing after the first that fails.                                     *)
C4_ConstructionSequence ==
    call.op = "NewADXL345" =>
        LET n == Len(ops) IN
        /\ n \in 1..5
        /\ ops[1].kind = "open" /\ ops[1].val = call.arg
        /\ n >= 2 => (ops[2].kind = "write" /\ ops[2].reg = 44 /\ ops[2].val = 11)
        /\ n >= 3 => (ops[3].kind = "read" /\ ops[3].reg = 49)
        /\ n >= 4 => (ops[4].kind = "write" /\ ops[4].reg = 49 /\ ops[4].val % 4 = 0)
        /\ n >= 5 => (ops[5].kind = "write" /\ ops[5].reg = 45 /\ ops[5].val = 8)
        /\ \A i \in 1..(n - 1) : ops[i].err = Nil
        /\ (\A i \in 1..n : ops[i].err = Nil) => n = 5

(* C5: when the open or a configuration step of NewADXL345 fails,          *)
(* NewADXL345 returns to its caller with the transport's non-nil error.    *)
C5_ConstructionReturnsError ==
    (call.op = "NewADXL345" /\ OpFailed(ops)) =>
        /\ proc = "running"
        /\ ret.returned
        /\ ret.err # Nil
        /\ ret.err = ops[Len(ops)].err

(* C6: when the block read fails, GetAxesG and GetAxesAcceleration return  *)
(* the vector {0,0,0} and the transport's error, unchanged.                *)
C6_ZeroVectorOnError ==
    (call.op \in {"GetAxesG", "GetAxesAcceleration"} /\ ops[1].err # Nil) =>
        /\ ret.returned
        /\ ret.vec = <<0, 0, 0>>
        /\ ret.err = ops[1].err

(* C6 witness: GetAxesAcceleration failed on a buffer of non-zero bytes.   *)
C6_Witness ==
    /\ call.op = "GetAxesAcceleration"
    /\ ops[1].err = "ENXIO"
    /\ buf[1] = 255 /\ buf[3] = 127 /\ buf[5] = 128
    /\ ret.err = "ENXIO"
    /\ ret.vec = <<0, 0, 0>>

(* C7: after a successful GetAxesG every component is the raw count times  *)
(* 0.0039 rounded to 4 places: 39 * raw in units of 10^-4 g; the bytes     *)
(* [1,0,0,0,0,0] give x = 0.0039.                                          *)
C7_ScaledBy39 ==
    (call.op = "GetAxesG" /\ ret.err = Nil) =>
        /\ \A i \in 1..3 : ret.vec[i] = 39 * ret.raw[i]
        /\ buf = <<1, 0, 0, 0, 0, 0>> => ret.vec = <<39, 0, 0>>
        /\ buf = <<0, 0, 0, 0, 0, 0>> => ret.vec = <<0, 0, 0>>

(* C8: a SetRange whose read of DATA_FORMAT fails returns that error,      *)
(* issues no write and leaves every register unchanged.                    *)
C8_ReadFailureNoWrite ==
    [][(call'.op = "SetRange" /\ ops'[1].err # Nil) =>
          /\ reg' = reg
          /\ Len(ops') = 1
          /\ ops'[1].kind = "read"
          /\ ret'.returned
          /\ ret'.err = ops'[1].err]_vars

(* C8 witness: SetRange returned the error of its failed read, after a     *)
(* range other than the one asked for had been set.                        *)
C8_Witness ==
    /\ call.op = "SetRange"
    /\ call.arg = 3
    /\ ops[1].kind = "read" /\ ops[1].err = "ENXIO"
    /\ ret.err = "ENXIO"
    /\ lastRange = 1

(* C9: every component a of GetAxesAcceleration is the component g of      *)
(* GetAxesG for the same buffer times 9.80665, rounded to 4 places by      *)
(* floor(v*10^4 + 0.5)/10^4, so |a - g*9.80665| <= 10^-4.  In units of     *)
(* 10^-4 / 20000: a*20000 against g*196133.                                *)
C9_AccelerationOfG ==
    (call.op = "GetAxesAcceleration" /\ ret.err = Nil) =>
        LET g == GetAxesGOp(variant, buf, Nil).vec IN
        \A i \in 1..3 :
            LET a    == ret.vec[i]
                prod == g[i] * 196133
            IN  /\ a * 20000 - prod <= 20000
                /\ prod - a * 20000 <= 20000
                /\ a * 20000 <= prod + 10000
                /\ prod + 10000 < (a + 1) * 20000

(* C9 witness: a successful GetAxesAcceleration whose x component was      *)
(* rounded up and whose other components are not zero.                     *)
C9_Witness ==
    /\ call.op = "GetAxesAcceleration"
    /\ ret.err = Nil
    /\ ret.vec[1] * 20000 > GetAxesGOp(variant, buf, Nil).vec[1] * 196133
    /\ ret.vec[2] > 0 /\ ret.vec[3] > 0

(* C10: with no transport failure, bits 0-1 of DATA_FORMAT are the range   *)
(* code of the most recent SetRange, and no operation other than SetRange  *)
(* (alone or inside NewADXL345) changes DATA_FORMAT.                       *)
C10_RangeIsLastSet ==
    [][/\ lastRange' \in 0..3 => reg'[49] % 4 = lastRange'
       /\ call'.op \notin {"SetRange", "NewADXL345"} => reg'[49] = reg[49]]_vars

====
